---------------------------- MODULE Spec2Model ----------------------------
(***************************************************************************)
(* A model of updater/updater.js: the vector tile updater that queries a   *)
(* sat-api index through a paginated stream, builds one GeoJSON feature    *)
(* collection per grouping, unwraps rings crossing the antimeridian,       *)
(* writes the collection to disk and uploads it, with the groupings run    *)
(* through async.parallelLimit.                                            *)
(***************************************************************************)
EXTENDS Integers, Sequences, FiniteSets, TLC

VARIABLES
    types,          \* params.types: the configured groupings, in order
    pTaskLimit,     \* params.taskLimit as given (0: absent)
    pQueryLimit,    \* params.queryLimit as given (0: absent)
    backend,        \* the search backend: which documents it may hold, and how many
    index,          \* per grouping: the matching documents the backend has shown so far
    indexEnd,       \* per grouping: whether index[g] is all of them
    started,        \* how many tasks parallelLimit has started (it starts them in order)
    st,             \* per grouping: the stage of its pipeline
    from,           \* per grouping: the stream's offset of the next page
    fetches,        \* per grouping: the offsets searchExec was called with
    buf,            \* per grouping: records of the current page not yet emitted
    more,           \* per grouping: whether another page follows the current one
    received,       \* per grouping: the records handed to the 'data' handler
    count,          \* per grouping: buildGeoJSON's count
    notices,        \* per grouping: the "Processed N records" notices logged
    geojson,        \* per grouping: geojson.features
    files,          \* the disk: file name -> what was written last
    uploads,        \* per grouping: the documents upload() was called with
    log,            \* per grouping: the stage events of its pipeline, in order
    doneCalls,      \* per grouping: the arguments done was called with, in order
    exitCode,       \* the process exit status (NoExit while running)
    runResult,      \* what the final callback of parallelLimit saw
    arg,            \* the input of a function under test
    res             \* its result

vars == <<types, pTaskLimit, pQueryLimit, backend, index, indexEnd, started, st,
          from, fetches, buf, more, received, count, notices, geojson, files, uploads,
          log, doneCalls, exitCode, runResult, arg, res>>

(* What the run is given: params and the backend.                          *)
config == <<types, pTaskLimit, pQueryLimit, backend>>

(* The state of the stream and the closure of one buildGeoJSON call.       *)
pipeVars == <<index, indexEnd, from, fetches, buf, more, received, count, notices,
              geojson, log>>

-----------------------------------------------------------------------------
(* Bounds of the model.                                                    *)

MaxGroups == 3
MaxTaskLimit == 2
MaxRecords == 3
MaxPage == 2
MaxProgress == 1
MaxMissing == 2


-----------------------------------------------------------------------------
(* JavaScript values.  A document field holds undefined (the field is      *)
(* absent), null, a number, a string (a sequence of characters) or an      *)
(* object (a geometry: its coordinates, a sequence of rings).              *)

Undef == [t |-> "undefined"]
Null == [t |-> "null"]
NaNv == [t |-> "NaN"]
Num(n) == [t |-> "number", v |-> n]
Str(s) == [t |-> "string", v |-> s]
Obj(c) == [t |-> "object", v |-> c]

DigitChars == <<"0", "1", "2", "3", "4", "5", "6", "7", "8", "9">>
IsDigit(ch) == \E k \in 1..10 : DigitChars[k] = ch
DigitVal(ch) == (CHOOSE k \in 1..10 : DigitChars[k] = ch) - 1

RECURSIVE NatStr(_)
NatStr(n) ==
    IF n < 10 THEN <<DigitChars[n + 1]>>
    ELSE Append(NatStr(n \div 10), DigitChars[(n % 10) + 1])

(* String(x) of JavaScript.                                                *)
String(x) ==
    CASE x.t = "string" -> x.v
      [] x.t = "number" -> IF x.v < 0 THEN <<"-">> \o NatStr(-x.v) ELSE NatStr(x.v)
      [] x.t = "undefined" -> <<"u", "n", "d", "e", "f", "i", "n", "e", "d">>
      [] x.t = "null" -> <<"n", "u", "l", "l">>
      [] x.t = "NaN" -> <<"N", "a", "N">>
      [] OTHER -> <<"[", "o", "b", "j", "e", "c", "t", " ", "O", "b", "j", "e", "c", "t", "]">>

(* !x of JavaScript.                                                       *)
Falsy(x) ==
    \/ x.t \in {"undefined", "null", "NaN"}
    \/ x.t = "number" /\ x.v = 0
    \/ x.t = "string" /\ x.v = <<>>

Min(a, b) == IF a < b THEN a ELSE b
Max(a, b) == IF a < b THEN b ELSE a

(* s.substring(a, b) of JavaScript, on a sequence of characters.           *)
substring(s, a, b) ==
    LET lo == Min(Max(Min(a, b), 0), Len(s))
        hi == Min(Max(Max(a, b), 0), Len(s))
    IN  SubSeq(s, lo + 1, hi)

(* s.slice(-1) of JavaScript: the last character.                          *)
sliceLast(s) == IF s = <<>> THEN <<>> ELSE <<s[Len(s)]>>

(* Zero padding without the recursion: at most one "0" is prefixed.        *)
zp_PadOnce(n, c) ==
    IF Len(String(n)) < c THEN <<"0">> \o String(n) ELSE String(n)

(* Zero padding that prefixes c characters "0" whatever the length.       *)
zp_PadWidth(n, c) == [i \in 1..c |-> "0"] \o String(n)

(* Zero padding: updater.js zp.  n is a JavaScript value, the result a     *)
(* string.                                                                 *)
RECURSIVE zp(_, _)
zp(n, c) ==
    LET s == String(n)
    IN  IF Len(s) < c THEN zp(Str(<<"0">> \o String(n)), c) ELSE s

(* Number(moment(date, 'YYYY-MM-DD').format('DDD')): the 1-based day of    *)
(* the year of a YYYY-MM-DD string, NaN for anything else.                 *)
NumOf(s) == IF Len(s) = 0 THEN 0
            ELSE LET F[i \in 0..Len(s)] ==
                         IF i = 0 THEN 0 ELSE 10 * F[i - 1] + DigitVal(s[i])
                 IN  F[Len(s)]

IsLeap(y) == (y % 4 = 0 /\ y % 100 # 0) \/ y % 400 = 0

DaysIn(y, m) ==
    IF m = 2 THEN (IF IsLeap(y) THEN 29 ELSE 28)
    ELSE IF m \in {4, 6, 9, 11} THEN 30 ELSE 31

dayOfYear(date) ==
    IF date.t # "string" \/ Len(date.v) # 10 THEN NaNv
    ELSE LET s == date.v
             wellFormed == /\ \A i \in {1, 2, 3, 4, 6, 7, 9, 10} : IsDigit(s[i])
                           /\ s[5] = "-" /\ s[8] = "-"
         IN  IF ~wellFormed THEN NaNv
             ELSE LET y == NumOf(SubSeq(s, 1, 4))
                      m == NumOf(SubSeq(s, 6, 7))
                      d == NumOf(SubSeq(s, 9, 10))
                      Before[k \in 0..12] ==
                          IF k = 0 THEN 0 ELSE Before[k - 1] + DaysIn(y, k)
                  IN  IF m \in 1..12 /\ d \in 1..DaysIn(y, m)
                      THEN Num(Before[m - 1] + d)
                      ELSE NaNv

-----------------------------------------------------------------------------
(* The 'data' handler of buildGeoJSON, as a function of the grouping's     *)
(* type and the document d = hit._source: it returns without a feature     *)
(* (skip), throws (a TypeError on a property of a value that has none), or *)
(* pushes one feature.                                                     *)

Fields == {"cloud_coverage", "date", "sceneID", "data_geometry", "tile_geometry",
           "path", "row", "utm_zone", "latitude_band", "grid_square"}

(* The guard of lines 96-106: TRUE when the handler returns early.         *)
missingFields(type, d) ==
    IF type = "landsat8"
    THEN \/ d["cloud_coverage"] = Undef
         \/ Falsy(d["date"])
         \/ Falsy(d["data_geometry"])
         \/ d["path"] = Undef
         \/ d["row"] = Undef
    ELSE IF type = "sentinel2"
    THEN \/ d["cloud_coverage"] = Undef
         \/ Falsy(d["date"])
         \/ Falsy(d["tile_geometry"])
         \/ d["utm_zone"] = Undef
         \/ Falsy(d["latitude_band"])
         \/ Falsy(d["grid_square"])
         \/ Falsy(d["path"])
    ELSE FALSE

(* Lines 113-123 call a string method on a value: it throws on anything    *)
(* but a string.                                                           *)
extractThrows(type, d) ==
    IF type = "landsat8" THEN d["sceneID"].t # "string"
    ELSE IF type = "sentinel2" THEN d["path"].t # "string" \/ d["date"].t # "string"
    ELSE FALSE

(* Lines 113-134: the feature built from a document that passed the guard  *)
(* and on which nothing throws.                                            *)
buildFeature(type, d) ==
    IF type = "landsat8"
    THEN LET id == d["sceneID"].v
         IN  [type |-> "Feature",
              geometry |-> d["data_geometry"],
              properties |->
                 [c |-> d["cloud_coverage"],
                  d |-> LET ddd == substring(id, 13, 16)
                        IN  IF ddd # <<>> /\ \A i \in 1..Len(ddd) : IsDigit(ddd[i])
                            THEN Num(NumOf(ddd))
                            ELSE IF ddd = <<>> THEN Num(0) ELSE NaNv,
                  s |-> substring(id, 1, 2) \o substring(id, 18, 19)
                        \o substring(id, 20, 21) \o zp(d["path"], 3) \o zp(d["row"], 3),
                  y |-> Str(substring(id, 11, 13))]]
    ELSE IF type = "sentinel2"
    THEN [type |-> "Feature",
          geometry |-> d["tile_geometry"],
          properties |->
             [c |-> d["cloud_coverage"],
              d |-> dayOfYear(d["date"]),
              s |-> zp(d["utm_zone"], 2) \o String(d["latitude_band"])
                    \o String(d["grid_square"]) \o sliceLast(d["path"].v),
              y |-> Str(substring(d["date"].v, 2, 4))]]
    ELSE [type |-> "Feature",
          geometry |-> Undef,
          properties |-> [c |-> d["cloud_coverage"], d |-> Undef,
                          s |-> String(Undef), y |-> Undef]]

onData(type, d) ==
    IF missingFields(type, d) THEN [kind |-> "skip"]
    ELSE IF extractThrows(type, d) THEN [kind |-> "throw"]
    ELSE [kind |-> "feature", feature |-> buildFeature(type, d)]

-----------------------------------------------------------------------------
(* warp.js: crossTest and warpArray.  A ring is a sequence of <<lon, lat>> *)
(* pairs in degrees.                                                       *)

Abs(x) == IF x < 0 THEN -x ELSE x

HalfTurn == 180
FullTurn == 360

(* A jump of more than half a turn between adjacent vertices.              *)
crossTest(ring) ==
    \E i \in 1..(Len(ring) - 1) : Abs(ring[i][1] - ring[i + 1][1]) > HalfTurn

(* The vertices on the minority side of the discontinuity are moved by a   *)
(* full turn; with as many vertices on either side, `tie` names the side   *)
(* that moves.                                                             *)
warpArray(ring, tie) ==
    LET west == {i \in 1..Len(ring) : ring[i][1] < 0}
        east == {i \in 1..Len(ring) : ring[i][1] >= 0}
        moveWest == \/ Cardinality(west) < Cardinality(east)
                    \/ Cardinality(west) = Cardinality(east) /\ tie = "west"
    IN  [i \in 1..Len(ring) |->
            IF moveWest
            THEN (IF i \in west THEN <<ring[i][1] + FullTurn, ring[i][2]>> ELSE ring[i])
            ELSE (IF i \in east THEN <<ring[i][1] - FullTurn, ring[i][2]>> ELSE ring[i])]

Ties == {"west", "east"}

(* The wrapping without the call of warpArray.                             *)
wrapFeature_NoWarp(f, tie) == f

(* The wrapping applied to every ring of the geometry that crosses.        *)
wrapFeature_AllRings(f, tie) ==
    [f EXCEPT !.geometry.v =
        [k \in 1..Len(@) |-> IF crossTest(@[k]) THEN warpArray(@[k], tie) ELSE @[k]]]

(* The 'end' handler's world wrapping, lines 149-162: the first ring of    *)
(* each feature's geometry is replaced when it crosses.                    *)
wrapFeature(f, tie) ==
    LET coordArray == f.geometry.v[1]
    IN  IF crossTest(coordArray)
        THEN [f EXCEPT !.geometry.v[1] = warpArray(coordArray, tie)]
        ELSE f

worldWrap(features, tie) ==
    [i \in 1..Len(features) |-> wrapFeature(features[i], tie)]

-----------------------------------------------------------------------------
(* Documents.                                                              *)

SceneID == <<"L", "C", "8", "0", "1", "3", "0", "3", "1", "2", "0", "1", "6", "0",
             "6", "1", "L", "G", "N", "0", "0">>
IsoDate == <<"2", "0", "1", "6", "-", "0", "3", "-", "0", "1">>
TilePath == <<"t", "i", "l", "e", "s", "/", "7", "/", "0">>

RingCross == <<<<-170, 0>>, <<170, 0>>, <<170, 10>>, <<-170, 10>>, <<-170, 0>>>>
RingPlain == <<<<-10, 0>>, <<10, 0>>, <<10, 10>>, <<-10, 10>>, <<-10, 0>>>>

(* A document with every field its type reads.                             *)
FullDoc(type, ring) ==
    [f \in Fields |->
       CASE f = "cloud_coverage" -> Num(10)
         [] f = "date" -> Str(IsoDate)
         [] f = "sceneID" -> IF type = "landsat8" THEN Str(SceneID) ELSE Undef
         [] f = "data_geometry" -> IF type = "landsat8" THEN Obj(<<ring>>) ELSE Undef
         [] f = "tile_geometry" -> IF type = "sentinel2" THEN Obj(<<ring>>) ELSE Undef
         [] f = "path" -> IF type = "landsat8" THEN Num(13) ELSE Str(TilePath)
         [] f = "row" -> IF type = "landsat8" THEN Num(31) ELSE Undef
         [] f = "utm_zone" -> IF type = "sentinel2" THEN Num(7) ELSE Undef
         [] f = "latitude_band" -> IF type = "sentinel2" THEN Str(<<"S">>) ELSE Undef
         [] f = "grid_square" -> IF type = "sentinel2" THEN Str(<<"D", "G">>) ELSE Undef]

GeometryField(type) == IF type = "landsat8" THEN "data_geometry" ELSE "tile_geometry"

(* Every document of the model is FullDoc with some fields changed.        *)
Without(d, f) == [d EXCEPT ![f] = Undef]

TypeNames == {"landsat8", "sentinel2", "other"}

(* The documents of the runs of several groupings: one that gives a        *)
(* feature whose ring crosses, and one without its geometry.               *)
RunDocs(type) ==
    {FullDoc(type, RingCross), Without(FullDoc(type, RingPlain), GeometryField(type))}

(* The documents of the runs of one grouping: also a feature whose ring    *)
(* does not cross, and a document without its scene identifier.            *)
PipeDocs(type) ==
    RunDocs(type) \cup {FullDoc(type, RingPlain),
                        Without(FullDoc(type, RingCross), "sceneID")}

(* The documents of the runs of two groupings: two that make different    *)
(* features and one that is skipped.                                       *)
ShareDocs(type) == RunDocs(type) \cup {FullDoc(type, RingPlain)}

(* The documents of the runs with the default page size.                   *)
BigDocs(type) == {FullDoc(type, RingPlain)}

(* The documents a backend of the given kind may hold for a type.          *)
Docs(kind, type) ==
    IF type \notin {"landsat8", "sentinel2"} THEN {}
    ELSE IF kind = "run" THEN RunDocs(type)
    ELSE IF kind = "pipe" THEN PipeDocs(type)
    ELSE IF kind = "big" THEN BigDocs(type)
    ELSE IF kind = "share" THEN ShareDocs(type)
    ELSE {}

-----------------------------------------------------------------------------
(* The run: doTheThing, the stream of each grouping, and parallelLimit.    *)

Groups == 1..Len(types)

DefaultTaskLimit == 1
DefaultQueryLimit == 1000

(* const taskLimit = params.taskLimit || 1 *)
taskLimit == IF pTaskLimit = 0 THEN DefaultTaskLimit ELSE pTaskLimit

(* const queryLimit = params.queryLimit || 1000 *)
queryLimit == IF pQueryLimit = 0 THEN DefaultQueryLimit ELSE pQueryLimit

KnownTypes == {"landsat8", "sentinel2"}

Running == exitCode = <<>> /\ runResult = "running"

(* The hits of a page, and the end of the stream after the last of them,   *)
(* are emitted from the tick queue, which Node drains before it takes the  *)
(* next I/O callback (a search result or an upload event).                 *)
TickQueueEmpty == \A g \in Groups : st[g] # "flowing"

(* Groupings whose task has been started and has not called done.          *)
InFlight == {g \in Groups : g <= started /\ doneCalls[g] = <<>>}

(* let filename = `${g.mapboxID}.geojson` *)
filename(g) == types[g].baseName

(* searchExec (lines 75-83): es.search({index, type, q, from, size:        *)
(* queryLimit}) on the matching documents idx returns the page that starts *)
(* at offset f.                                                            *)
searchExec_NoFrom(idx, f) == SubSeq(idx, 1, Min(queryLimit, Len(idx)))

searchExec(idx, f) == SubSeq(idx, f + 1, Min(f + queryLimit, Len(idx)))

(* ReadableSearch: a page shorter than the page size ends the stream, and  *)
(* after a full page the offset advances by the page size.                 *)
lastPage(page) == Len(page) < queryLimit
nextFrom(f, page) == f + queryLimit

(* parallelLimit starts the tasks k..m in order.  A task of an unknown     *)
(* type exits the process (lines 70-73) before the tasks after it start;   *)
(* the streams of the tasks started issue their first search at offset 0.  *)
FirstBad(k, m) ==
    IF \E g \in k..m : types[g].type \notin KnownTypes
    THEN CHOOSE g \in k..m : /\ types[g].type \notin KnownTypes
                             /\ \A h \in k..(g - 1) : types[h].type \in KnownTypes
    ELSE 0

(* Starting the tasks without the test of the type: every stream is made  *)
(* and issues its first search.                                            *)
StartTasks_NoTypeCheck(k, m, stNow, fetchesNow, logNow) ==
    /\ started' = m
    /\ st' = [g \in Groups |-> IF g \in k..m THEN "fetching" ELSE stNow[g]]
    /\ fetches' = [g \in Groups |-> IF g \in k..m THEN <<0>> ELSE fetchesNow[g]]
    /\ log' = [g \in Groups |-> IF g \in k..m THEN <<"start">> ELSE logNow[g]]
    /\ exitCode' = <<>>

StartTasks(k, m, stNow, fetchesNow, logNow) ==
    LET bad == FirstBad(k, m)
        lastStarted == IF bad = 0 THEN m ELSE bad
    IN  /\ started' = lastStarted
        /\ st' = [g \in Groups |->
                    IF g \in k..lastStarted
                    THEN (IF g = bad THEN "exited" ELSE "fetching")
                    ELSE stNow[g]]
        /\ fetches' = [g \in Groups |->
                         IF g \in k..lastStarted /\ bad = 0 THEN <<0>> ELSE fetchesNow[g]]
        /\ log' = [g \in Groups |->
                     IF g \in k..lastStarted THEN <<"start">> ELSE logNow[g]]
        /\ exitCode' = IF bad = 0 THEN <<>> ELSE <<1>>

(* doTheThing with parallel in place of parallelLimit: every task starts.  *)
doTheThing_NoLimit ==
    /\ runResult = "idle"
    /\ exitCode = <<>>
    /\ IF Len(types) = 0
       THEN /\ runResult' = "Success"
            /\ exitCode' = <<0>>
            /\ UNCHANGED <<started, st, fetches, log>>
       ELSE /\ runResult' = "running"
            /\ StartTasks(1, Len(types), st, fetches, log)
    /\ UNCHANGED <<config, index, indexEnd, from, buf, more, received, count, notices,
                   geojson, files, uploads, doneCalls, arg, res>>

(* doTheThing: the groupings are built and handed to parallelLimit, which  *)
(* calls back at once for an empty list and else starts the first          *)
(* taskLimit tasks.                                                        *)
doTheThing ==
    /\ runResult = "idle"
    /\ exitCode = <<>>
    /\ IF Len(types) = 0
       THEN /\ runResult' = "Success"
            /\ exitCode' = <<0>>
            /\ UNCHANGED <<started, st, fetches, log>>
       ELSE /\ runResult' = "running"
            /\ StartTasks(1, Min(taskLimit, Len(types)), st, fetches, log)
    /\ UNCHANGED <<config, index, indexEnd, from, buf, more, received, count, notices,
                   geojson, files, uploads, doneCalls, arg, res>>

(* Once done is called nothing refers to the stream and the collection of  *)
(* grouping g any more.                                                    *)
Discard(g) ==
    /\ index' = [index EXCEPT ![g] = <<>>]
    /\ indexEnd' = [indexEnd EXCEPT ![g] = FALSE]
    /\ from' = [from EXCEPT ![g] = 0]
    /\ buf' = [buf EXCEPT ![g] = <<>>]
    /\ more' = [more EXCEPT ![g] = TRUE]
    /\ received' = [received EXCEPT ![g] = <<>>]
    /\ count' = [count EXCEPT ![g] = 0]
    /\ notices' = [notices EXCEPT ![g] = <<>>]
    /\ geojson' = [geojson EXCEPT ![g] = <<>>]

(* done(null) of grouping g: parallelLimit calls the final callback when   *)
(* every task has called back (process.exit(0)), and else starts the next  *)
(* task, if any.                                                           *)
doneOk(g) ==
    LET calls == [doneCalls EXCEPT ![g] = Append(@, "null")]
        stNow == [st EXCEPT ![g] = "done"]
        fetchesNow == [fetches EXCEPT ![g] = <<>>]
        logNow == [log EXCEPT ![g] = <<>>]
    IN  /\ doneCalls' = calls
        /\ Discard(g)
        /\ IF \A h \in Groups : calls[h] # <<>>
           THEN /\ runResult' = "Success"
                /\ exitCode' = <<0>>
                /\ st' = stNow
                /\ fetches' = fetchesNow
                /\ log' = logNow
                /\ UNCHANGED started
           ELSE IF started < Len(types)
           THEN /\ runResult' = runResult
                /\ StartTasks(started + 1, started + 1, stNow, fetchesNow, logNow)
           ELSE /\ runResult' = runResult
                /\ st' = stNow
                /\ fetches' = fetchesNow
                /\ log' = logNow
                /\ UNCHANGED <<started, exitCode>>

(* done(err) with a final callback that does not exit: the tasks in flight *)
(* go on and start the tasks after them.                                   *)
doneErr_NoExit(g) ==
    /\ doneCalls' = [doneCalls EXCEPT ![g] = Append(@, "err")]
    /\ Discard(g)
    /\ st' = [st EXCEPT ![g] = "done"]
    /\ fetches' = [fetches EXCEPT ![g] = <<>>]
    /\ log' = [log EXCEPT ![g] = <<>>]
    /\ UNCHANGED <<runResult, exitCode, started>>

(* done(err) of grouping g: the final callback exits with status 1.        *)
doneErr(g) ==
    /\ doneCalls' = [doneCalls EXCEPT ![g] = Append(@, "err")]
    /\ Discard(g)
    /\ st' = [st EXCEPT ![g] = "done"]
    /\ fetches' = [fetches EXCEPT ![g] = <<>>]
    /\ log' = [log EXCEPT ![g] = <<>>]
    /\ runResult' = "Failed"
    /\ exitCode' = <<1>>
    /\ UNCHANGED started

(* The documents the backend may add to what it has shown of grouping g's *)
(* matches when asked for the page at offset f: none once the end has been *)
(* shown, and else enough to fill the page or to end with one of the       *)
(* backend's sizes.                                                        *)
Extensions(g, f) ==
    LET have == Len(index[g])
        upTo == f + queryLimit
        lens == IF indexEnd[g] \/ have >= upTo THEN {0}
                ELSE {n \in 0..(upTo - have) :
                        \/ have + n = upTo /\ \E z \in backend.sizes : z >= upTo
                        \/ have + n < upTo /\ have + n \in backend.sizes}
    IN  UNION {[1..n -> Docs(backend.docs, types[g].type)] : n \in lens}

(* The search of grouping g returns a page: the stream keeps its hits.     *)
PageArrives(g) ==
    /\ Running
    /\ TickQueueEmpty
    /\ st[g] = "fetching"
    /\ \E ext \in Extensions(g, from[g]) :
         LET idx == index[g] \o ext
             page == searchExec(idx, from[g])
         IN  /\ index' = [index EXCEPT ![g] = idx]
             /\ indexEnd' = [indexEnd EXCEPT ![g] = @ \/ Len(idx) < from[g] + queryLimit]
             /\ buf' = [buf EXCEPT ![g] = page]
             /\ more' = [more EXCEPT ![g] = ~lastPage(page)]
             /\ from' = [from EXCEPT ![g] =
                           IF lastPage(page) THEN @ ELSE nextFrom(@, page)]
    /\ st' = [st EXCEPT ![g] = "flowing"]
    /\ UNCHANGED <<config, started, fetches, received, count, notices, geojson, files,
                   uploads, log, doneCalls, exitCode, runResult, arg, res>>

(* The search of grouping g fails: rs.on('error') logs the error.          *)
QueryError(g) ==
    /\ Running
    /\ TickQueueEmpty
    /\ st[g] = "fetching"
    /\ st' = [st EXCEPT ![g] = "errored"]
    /\ log' = [log EXCEPT ![g] = Append(@, "queryError")]
    /\ UNCHANGED <<config, index, indexEnd, started, from, fetches, buf, more,
                   received, count, notices, geojson, files, uploads, doneCalls,
                   exitCode, runResult, arg, res>>

(* The 'data' handler with the collection declared outside buildGeoJSON:  *)
(* every stream pushes to the collection of the first grouping.            *)
OnData_SharedCollection(g) ==
    /\ Running
    /\ st[g] = "flowing"
    /\ buf[g] # <<>>
    /\ LET d == Head(buf[g])
           out == onData(types[g].type, d)
           n == count[g] + 1
           refill == Len(buf[g]) = 1 /\ more[g]
       IN  /\ received' = [received EXCEPT ![g] = Append(@, d)]
           /\ buf' = [buf EXCEPT ![g] = Tail(@)]
           /\ IF out.kind = "feature"
              THEN /\ geojson' = [geojson EXCEPT ![1] = Append(@, out.feature)]
                   /\ count' = [count EXCEPT ![g] = n]
                   /\ notices' = [notices EXCEPT ![g] =
                                    IF n % 1000 = 0 THEN Append(@, n) ELSE @]
              ELSE UNCHANGED <<geojson, count, notices>>
           /\ IF out.kind = "throw"
              THEN /\ exitCode' = <<1>>
                   /\ st' = [st EXCEPT ![g] = "crashed"]
                   /\ UNCHANGED fetches
              ELSE /\ exitCode' = exitCode
                   /\ st' = [st EXCEPT ![g] = IF refill THEN "fetching" ELSE @]
                   /\ fetches' = [fetches EXCEPT ![g] =
                                    IF refill THEN Append(@, from[g]) ELSE @]
    /\ UNCHANGED <<config, index, indexEnd, started, from, more, files, uploads, log,
                   doneCalls, runResult, arg, res>>

(* rs.on('data'): the next hit of the page.  A throw in the handler is an  *)
(* uncaught exception: the process dies with status 1.  After the last hit *)
(* of a full page the stream issues the next search.                       *)
OnData(g) ==
    /\ Running
    /\ st[g] = "flowing"
    /\ buf[g] # <<>>
    /\ LET d == Head(buf[g])
           out == onData(types[g].type, d)
           n == count[g] + 1
           refill == Len(buf[g]) = 1 /\ more[g]
       IN  /\ received' = [received EXCEPT ![g] = Append(@, d)]
           /\ buf' = [buf EXCEPT ![g] = Tail(@)]
           /\ IF out.kind = "feature"
              THEN /\ geojson' = [geojson EXCEPT ![g] = Append(@, out.feature)]
                   /\ count' = [count EXCEPT ![g] = n]
                   /\ notices' = [notices EXCEPT ![g] =
                                    IF n % 1000 = 0 THEN Append(@, n) ELSE @]
              ELSE UNCHANGED <<geojson, count, notices>>
           /\ IF out.kind = "throw"
              THEN /\ exitCode' = <<1>>
                   /\ st' = [st EXCEPT ![g] = "crashed"]
                   /\ UNCHANGED fetches
              ELSE /\ exitCode' = exitCode
                   /\ st' = [st EXCEPT ![g] = IF refill THEN "fetching" ELSE @]
                   /\ fetches' = [fetches EXCEPT ![g] =
                                    IF refill THEN Append(@, from[g]) ELSE @]
    /\ UNCHANGED <<config, index, indexEnd, started, from, more, files, uploads, log,
                   doneCalls, runResult, arg, res>>

(* The 'end' callback without the test of lines 183-186: an empty          *)
(* collection is written and uploaded like any other.                      *)
OnEnd_NoEmptyCheck(g) ==
    /\ Running
    /\ st[g] = "flowing"
    /\ buf[g] = <<>>
    /\ ~more[g]
    /\ \E tie \in Ties :
         /\ geojson' = [geojson EXCEPT ![g] = worldWrap(geojson[g], tie)]
         /\ files' = [files EXCEPT ![filename(g)] =
                        <<[by |-> g, doc |-> worldWrap(geojson[g], tie)]>>]
    /\ uploads' = [uploads EXCEPT ![g] = @ + 1]
    /\ st' = [st EXCEPT ![g] = "uploading"]
    /\ log' = [log EXCEPT ![g] = @ \o <<"end", "wrap", "write", "upload">>]
    /\ UNCHANGED <<config, index, indexEnd, from, fetches, buf, more, received, count,
                   notices, started, doneCalls, exitCode, runResult, arg, res>>

(* The 'end' handler writing the collection before it is wrapped.          *)
OnEnd_WritesFirst(g) ==
    /\ Running
    /\ st[g] = "flowing"
    /\ buf[g] = <<>>
    /\ ~more[g]
    /\ \E tie \in Ties, written \in BOOLEAN :
         LET wrapped == worldWrap(geojson[g], tie)
         IN  IF Len(wrapped) = 0
             THEN /\ written
                  /\ doneOk(g)
                  /\ UNCHANGED <<files, uploads>>
             ELSE IF written
             THEN /\ geojson' = [geojson EXCEPT ![g] = wrapped]
                  /\ files' = [files EXCEPT ![filename(g)] =
                                 <<[by |-> g, doc |-> geojson[g]]>>]
                  /\ uploads' = [uploads EXCEPT ![g] = @ + 1]
                  /\ st' = [st EXCEPT ![g] = "uploading"]
                  /\ log' = [log EXCEPT ![g] = @ \o <<"end", "write", "wrap", "upload">>]
                  /\ UNCHANGED <<index, indexEnd, from, fetches, buf, more, received,
                                 count, notices, started, doneCalls, exitCode,
                                 runResult>>
             ELSE /\ st' = [st EXCEPT ![g] = "crashed"]
                  /\ exitCode' = <<1>>
                  /\ log' = [log EXCEPT ![g] = @ \o <<"end", "writeThrows">>]
                  /\ UNCHANGED <<index, indexEnd, from, fetches, buf, more, received,
                                 count, notices, geojson, files, uploads, started,
                                 doneCalls, runResult>>
    /\ UNCHANGED <<config, arg, res>>

(* rs.on('end') and the callback of buildGeoJSON (lines 146-217): world    *)
(* wrapping, then done(null) for an empty collection, else the file is     *)
(* written (writeFileSync may throw: an uncaught exception) and the upload *)
(* started.                                                                *)
OnEnd(g) ==
    /\ Running
    /\ st[g] = "flowing"
    /\ buf[g] = <<>>
    /\ ~more[g]
    /\ \E tie \in Ties, written \in BOOLEAN :
         LET wrapped == worldWrap(geojson[g], tie)
         IN  IF Len(wrapped) = 0
             THEN /\ written
                  /\ doneOk(g)
                  /\ UNCHANGED <<files, uploads>>
             ELSE IF written
             THEN /\ geojson' = [geojson EXCEPT ![g] = wrapped]
                  /\ files' = [files EXCEPT ![filename(g)] =
                                 <<[by |-> g, doc |-> wrapped]>>]
                  /\ uploads' = [uploads EXCEPT ![g] = @ + 1]
                  /\ st' = [st EXCEPT ![g] = "uploading"]
                  /\ log' = [log EXCEPT ![g] = @ \o <<"end", "wrap", "write", "upload">>]
                  /\ UNCHANGED <<index, indexEnd, from, fetches, buf, more, received,
                                 count, notices, started, doneCalls, exitCode,
                                 runResult>>
             ELSE /\ geojson' = [geojson EXCEPT ![g] = wrapped]
                  /\ st' = [st EXCEPT ![g] = "crashed"]
                  /\ exitCode' = <<1>>
                  /\ log' = [log EXCEPT ![g] = @ \o <<"end", "wrap", "writeThrows">>]
                  /\ UNCHANGED <<index, indexEnd, from, fetches, buf, more, received,
                                 count, notices, files, uploads, started, doneCalls,
                                 runResult>>
    /\ UNCHANGED <<config, arg, res>>

(* A 'progress' handler that calls done(null).                             *)
UploadProgress_CallsDone(g) ==
    /\ Running
    /\ TickQueueEmpty
    /\ st[g] = "uploading"
    /\ Cardinality({i \in 1..Len(log[g]) : log[g][i] = "progress"}) < MaxProgress
    /\ log' = [log EXCEPT ![g] = Append(@, "progress")]
    /\ doneCalls' = [doneCalls EXCEPT ![g] = Append(@, "null")]
    /\ UNCHANGED <<config, index, indexEnd, started, st, from, fetches, buf, more,
                   received, count, notices, geojson, files, uploads,
                   exitCode, runResult, arg, res>>

(* progress.on('progress'): logged.                                        *)
UploadProgress(g) ==
    /\ Running
    /\ TickQueueEmpty
    /\ st[g] = "uploading"
    /\ Cardinality({i \in 1..Len(log[g]) : log[g][i] = "progress"}) < MaxProgress
    /\ log' = [log EXCEPT ![g] = Append(@, "progress")]
    /\ UNCHANGED <<config, index, indexEnd, started, st, from, fetches, buf, more,
                   received, count, notices, geojson, files, uploads, doneCalls,
                   exitCode, runResult, arg, res>>

(* progress.once('error'): done(err).                                      *)
UploadError(g) ==
    /\ Running
    /\ TickQueueEmpty
    /\ st[g] = "uploading"
    /\ doneErr(g)
    /\ UNCHANGED <<config, files, uploads, arg, res>>

(* progress.once('finished'): done(null).                                  *)
UploadFinished(g) ==
    /\ Running
    /\ TickQueueEmpty
    /\ st[g] = "uploading"
    /\ doneOk(g)
    /\ UNCHANGED <<config, files, uploads, arg, res>>

Next ==
    \/ doTheThing
    \/ \E g \in Groups : PageArrives(g)
    \/ \E g \in Groups : QueryError(g)
    \/ \E g \in Groups : OnData(g)
    \/ \E g \in Groups : OnEnd(g)
    \/ \E g \in Groups : UploadProgress(g)
    \/ \E g \in Groups : UploadError(g)
    \/ \E g \in Groups : UploadFinished(g)

-----------------------------------------------------------------------------
(* Runs.                                                                   *)

BaseNames == {"scenes"}

Groupings(n) == [1..n -> [type : TypeNames, baseName : BaseNames]]

InitPipes ==
    /\ index = [g \in Groups |-> <<>>]
    /\ indexEnd = [g \in Groups |-> FALSE]
    /\ started = 0
    /\ st = [g \in Groups |-> "idle"]
    /\ from = [g \in Groups |-> 0]
    /\ fetches = [g \in Groups |-> <<>>]
    /\ buf = [g \in Groups |-> <<>>]
    /\ more = [g \in Groups |-> TRUE]
    /\ received = [g \in Groups |-> <<>>]
    /\ count = [g \in Groups |-> 0]
    /\ notices = [g \in Groups |-> <<>>]
    /\ geojson = [g \in Groups |-> <<>>]
    /\ files = [n \in {types[g].baseName : g \in Groups} |-> <<>>]
    /\ uploads = [g \in Groups |-> 0]
    /\ log = [g \in Groups |-> <<>>]
    /\ doneCalls = [g \in Groups |-> <<>>]
    /\ exitCode = <<>>
    /\ runResult = "idle"

(* Runs of up to MaxGroups groupings under a task limit of up to           *)
(* MaxTaskLimit, each grouping matching no document or one, a page holding *)
(* one document.                                                           *)
Init ==
    /\ types \in UNION {Groupings(n) : n \in 0..MaxGroups}
    /\ pTaskLimit \in 0..MaxTaskLimit
    /\ pQueryLimit = 1
    /\ backend = [docs |-> "run", sizes |-> {0, 1}]
    /\ InitPipes
    /\ arg = <<>>
    /\ res = <<>>

Spec == Init /\ [][Next]_vars

(* Runs of one grouping of a known type, matching up to MaxRecords         *)
(* documents served in pages of up to MaxPage.                             *)
InitPipe ==
    /\ types \in [1..1 -> [type : KnownTypes, baseName : BaseNames]]
    /\ pTaskLimit = 0
    /\ pQueryLimit \in 1..MaxPage
    /\ backend = [docs |-> "pipe", sizes |-> 0..MaxRecords]
    /\ InitPipes
    /\ arg = <<>>
    /\ res = <<>>

SpecPipe == InitPipe /\ [][Next]_vars

(* The same, and runs with the default page size over BigSizes documents.  *)
BigSizes == {2 * DefaultQueryLimit, 2 * DefaultQueryLimit + 300}

InitPage ==
    /\ types \in [1..1 -> [type : KnownTypes, baseName : BaseNames]]
    /\ pTaskLimit = 0
    /\ \/ /\ pQueryLimit \in 1..MaxPage
          /\ backend = [docs |-> "pipe", sizes |-> 0..MaxRecords]
       \/ /\ pQueryLimit = 0
          /\ backend = [docs |-> "big", sizes |-> BigSizes]
    /\ InitPipes
    /\ arg = <<>>
    /\ res = <<>>

SpecPage == InitPage /\ [][Next]_vars

-----------------------------------------------------------------------------
(* The 'data' handler on its own: a document of a known type with up to    *)
(* MaxMissing of its fields absent or null.                                *)

Deviations ==
    {m \in [Fields -> {"keep", "undefined", "null"}] :
        Cardinality({f \in Fields : m[f] # "keep"}) <= MaxMissing}

Deviate(d, m) ==
    [f \in Fields |->
       IF m[f] = "undefined" THEN Undef ELSE IF m[f] = "null" THEN Null ELSE d[f]]

(* A document that has the fields of both types.                           *)
BothDoc(type) ==
    [f \in Fields |->
       IF FullDoc(type, RingPlain)[f] # Undef THEN FullDoc(type, RingPlain)[f]
       ELSE IF f = "sceneID" THEN Str(SceneID)
       ELSE IF f = "row" THEN Num(31)
       ELSE IF f = "utm_zone" THEN Num(7)
       ELSE Str(<<"S">>)]

NoRun ==
    /\ types = <<>>
    /\ pTaskLimit = 0
    /\ pQueryLimit = 0
    /\ backend = [docs |-> "none", sizes |-> {0}]
    /\ InitPipes

InitNorm ==
    /\ NoRun
    /\ arg \in {<<[type |-> t, doc |-> Deviate(BothDoc(t), m)]>> :
                   t \in KnownTypes, m \in Deviations}
    /\ res = <<>>

DataStep ==
    /\ res = <<>>
    /\ res' = <<onData(arg[1].type, arg[1].doc)>>
    /\ UNCHANGED <<config, pipeVars, started, st, files, uploads, doneCalls, exitCode,
                   runResult, arg>>

SpecNorm == InitNorm /\ [][DataStep]_vars

-----------------------------------------------------------------------------
(* The world wrapping on its own: collections of one or two features whose *)
(* outer rings are quadrilaterals, with or without a hole.                 *)

Lons == {-170, -100, -10, 10, 100, 170}

(* The simple quadrilaterals with two vertices at latitude 0 and two at    *)
(* latitude 10, closed.                                                    *)
Quads ==
    {<<<<a, 0>>, <<b, 0>>, <<c, 10>>, <<d, 10>>, <<a, 0>>>> :
        <<a, b, c, d>> \in {q \in Lons \X Lons \X Lons \X Lons :
                               \/ q[1] < q[2] /\ q[4] < q[3]
                               \/ q[1] > q[2] /\ q[4] > q[3]}}

WarpFeature(outer, holes) ==
    buildFeature("landsat8",
                 [FullDoc("landsat8", outer) EXCEPT
                     !["data_geometry"] = Obj(<<outer>> \o holes)])

(* The triangles with two vertices at latitude 0 and one at latitude 10.   *)
Triangles ==
    {<<<<a, 0>>, <<b, 0>>, <<c, 10>>, <<a, 0>>>> :
        <<a, b, c>> \in {q \in Lons \X Lons \X Lons : q[1] # q[2]}}

WarpInputs ==
    LET one == {WarpFeature(q, h) : q \in Quads \cup Triangles,
                                    h \in {<<>>, <<RingCross>>}}
        other == {WarpFeature(RingPlain, <<>>), WarpFeature(RingCross, <<RingPlain>>)}
    IN  {<<f>> : f \in one} \cup {<<f, o>> : f \in one, o \in other}
        \cup {<<o, f>> : f \in one, o \in other}

InitWarp ==
    /\ NoRun
    /\ arg \in {<<fs>> : fs \in WarpInputs}
    /\ res = <<>>

WrapStep ==
    /\ res = <<>>
    /\ \E tie \in Ties : res' = <<worldWrap(arg[1], tie)>>
    /\ UNCHANGED <<config, pipeVars, started, st, files, uploads, doneCalls, exitCode,
                   runResult, arg>>

SpecWarp == InitWarp /\ [][WrapStep]_vars

-----------------------------------------------------------------------------
(* Properties of the run.                                                  *)

(* The run can take no further step: the process has exited, or nothing it *)
(* waits for is outstanding.                                               *)
Stopped == ~ENABLED Next

(* The pipeline of grouping g has failed: its search failed, a handler of  *)
(* it threw, or its upload reported an error.                              *)
PipelineFailed(g) == st[g] \in {"errored", "crashed"} \/ doneCalls[g] = <<"err">>

(* C1: the process exits with status 0 only when every grouping has called *)
(* back without an error, and a run that has stopped with a failed         *)
(* pipeline has exited with status 1; with a task limit of 2 and 3         *)
(* groupings of which the second's upload reports an error, the run is     *)
(* Failed and the status is 1.                                             *)
C1_ExitStatus ==
    /\ exitCode = <<0>> => \A g \in Groups : doneCalls[g] = <<"null">>
    /\ (Stopped /\ \E g \in Groups : PipelineFailed(g)) => exitCode = <<1>>
    /\ (Len(types) = 3 /\ taskLimit = 2 /\ doneCalls[2] = <<"err">>)
          => (runResult = "Failed" /\ exitCode = <<1>>)

(* C2: a grouping whose search failed is reported to parallelLimit as      *)
(* failed, never as done, and the run that has stopped is Failed with      *)
(* status 1.                                                               *)
C2_QueryErrorReported ==
    \A g \in Groups :
        st[g] = "errored" =>
            /\ doneCalls[g] # <<"null">>
            /\ Stopped => (doneCalls[g] = <<"err">> /\ runResult = "Failed"
                           /\ exitCode = <<1>>)

(* C3: at most taskLimit groupings are in flight, taskLimit is 1 when      *)
(* params gives none, and then a grouping starts only after the one before *)
(* it has called back.                                                     *)
C3_BoundedInFlight ==
    /\ Cardinality(InFlight) <= (IF pTaskLimit = 0 THEN 1 ELSE pTaskLimit)
    /\ pTaskLimit = 0 =>
          \A g \in Groups : (g > 1 /\ g <= started) => doneCalls[g - 1] # <<>>

C3_Witness ==
    /\ pTaskLimit = 2
    /\ Len(types) = 3
    /\ Cardinality(InFlight) = 2
    /\ \E g \in Groups : st[g] = "uploading"

(* C4: once a grouping has called back with an error no further task is   *)
(* started, and under a task limit of 1 the groupings after a failed one   *)
(* are never queried, written or uploaded.                                 *)
C4_NoStartAfterFailure ==
    (\E g \in Groups : doneCalls[g] = <<"err">>) => started' = started

C4_LaterUntouched ==
    (IF pTaskLimit = 0 THEN 1 ELSE pTaskLimit) = 1 =>
        \A g \in Groups : \A h \in Groups :
            (PipelineFailed(g) /\ h > g) =>
                /\ st[h] = "idle"
                /\ fetches[h] = <<>>
                /\ uploads[h] = 0
                /\ \A n \in DOMAIN files : files[n] = <<>> \/ files[n][1].by # h

C4_FirstFailureAborts == [][C4_NoStartAfterFailure]_vars /\ []C4_LaterUntouched

C4_Witness ==
    /\ Len(types) = 3
    /\ pTaskLimit = 1
    /\ doneCalls[1] = <<"null">>
    /\ doneCalls[2] = <<"err">>
    /\ st[3] = "idle"
    /\ exitCode = <<1>>

(* The features the 'data' handler collects from a sequence of documents.  *)
FeaturesOf(type, docs) ==
    LET F[i \in 0..Len(docs)] ==
            IF i = 0 THEN <<>>
            ELSE IF onData(type, docs[i]).kind = "feature"
                 THEN Append(F[i - 1], onData(type, docs[i]).feature)
                 ELSE F[i - 1]
    IN  F[Len(docs)]

Occurs(l, e) == Cardinality({i \in 1..Len(l) : l[i] = e})
Before(l, a, b) ==
    \A j \in 1..Len(l) : l[j] = b => \E i \in 1..(j - 1) : l[i] = a

(* C5: in one pipeline the stream has ended with every document handled    *)
(* before the wrapping, the wrapping of the whole collection is done       *)
(* before the file is written, and the file is written before upload is    *)
(* called; each stage happens once.                                        *)
C5_StageOrder ==
    \A g \in Groups :
        LET l == log[g]
            collected == FeaturesOf(types[g].type, received[g])
        IN  /\ \A e \in {"end", "wrap", "write", "upload"} : Occurs(l, e) <= 1
            /\ Before(l, "end", "wrap")
            /\ Before(l, "wrap", "write")
            /\ Before(l, "wrap", "writeThrows")
            /\ Before(l, "write", "upload")
            /\ Before(l, "upload", "progress")
            /\ (Occurs(l, "end") = 0 /\ st[g] # "done") =>
                  /\ geojson[g] = collected
                  /\ uploads[g] = 0
                  /\ \A n \in DOMAIN files : files[n] = <<>> \/ files[n][1].by # g
            /\ Occurs(l, "end") = 1 =>
                  /\ buf[g] = <<>> /\ ~more[g]
                  /\ indexEnd[g] /\ received[g] = index[g]
            /\ Occurs(l, "wrap") = 1 =>
                  \E tie \in Ties : geojson[g] = worldWrap(collected, tie)
            /\ Occurs(l, "write") = 1 =>
                  files[filename(g)] = <<[by |-> g, doc |-> geojson[g]]>>
            /\ Occurs(l, "upload") = 1 <=> st[g] = "uploading"
            /\ st[g] = "uploading" => uploads[g] = 1

C5_Witness ==
    \E g \in Groups :
        /\ st[g] = "uploading"
        /\ Occurs(log[g], "progress") = 1
        /\ Len(received[g]) >= 2
        /\ Len(geojson[g]) >= 1
        /\ geojson[g] # FeaturesOf(types[g].type, received[g])

(* C7: the 'end' handler of a grouping whose collection is empty writes no *)
(* file, calls no upload and calls done(null); that of a grouping whose    *)
(* collection is not empty writes the file and then calls upload, once     *)
(* (a write that throws ends the process there).                           *)
EndStep(g) == st[g] = "flowing" /\ buf[g] = <<>> /\ ~more[g] /\ st'[g] # "flowing"

C7_EndStep ==
    \A g \in Groups :
        /\ (EndStep(g) /\ geojson[g] = <<>>) =>
              /\ files' = files
              /\ uploads' = uploads
              /\ doneCalls'[g] = <<"null">>
        /\ (EndStep(g) /\ geojson[g] # <<>>) =>
              \/ /\ st'[g] = "crashed"
                 /\ exitCode' = <<1>>
                 /\ uploads' = uploads
              \/ /\ st'[g] = "uploading"
                 /\ files'[filename(g)] = <<[by |-> g, doc |-> geojson'[g]]>>
                 /\ Len(geojson'[g]) = Len(geojson[g])
                 /\ uploads'[g] = 1
                 /\ doneCalls'[g] = <<>>

C7_Once ==
    \A g \in Groups :
        /\ uploads[g] <= 1
        /\ uploads[g] = 0 =>
              /\ doneCalls[g] \in {<<>>, <<"null">>}
              /\ \A n \in DOMAIN files : files[n] = <<>> \/ files[n][1].by # g
        /\ uploads[g] = 1 => st[g] \in {"uploading", "done"}

C7_EmptySkipsPublish == [][C7_EndStep]_vars /\ []C7_Once

C7_Witness ==
    /\ Len(types) = 2
    /\ doneCalls[1] = <<"null">> /\ uploads[1] = 0
    /\ st[2] = "uploading" /\ uploads[2] = 1
    /\ files[filename(2)] = <<[by |-> 2, doc |-> geojson[2]]>>

(* The required fields the specification declares for each type.          *)
Required(type) ==
    IF type = "landsat8"
    THEN {"cloud_coverage", "sceneID", "data_geometry", "path", "row"}
    ELSE {"cloud_coverage", "date", "tile_geometry", "utm_zone", "latitude_band",
          "grid_square", "path"}

LacksRequired(type, d) == \E f \in Required(type) : d[f] \in {Undef, Null}

(* C6: the 'data' handler skips a document, and does not throw, whenever a *)
(* required field of its type is absent or null, and makes one feature of  *)
(* a document that has every required field.                               *)
C6_SkipOnMissingField ==
    res # <<>> =>
        /\ res[1].kind # "throw"
        /\ LacksRequired(arg[1].type, arg[1].doc) => res[1].kind = "skip"
        /\ ~LacksRequired(arg[1].type, arg[1].doc) => res[1].kind = "feature"

(* The outer ring of feature i before and after the wrapping.              *)
RingIn(i) == arg[1][i].geometry.v[1]
RingOut(i) == res[1][i].geometry.v[1]

Lon(ring) == {ring[i][1] : i \in 1..Len(ring)}

(* Every vertex east of the prime meridian is at least half a turn away    *)
(* from every vertex west of it.                                           *)
Narrow(ring) ==
    \A e \in Lon(ring) : \A w \in Lon(ring) : (e >= 0 /\ w < 0) => e - w >= HalfTurn

C9_OnlyOuterRing ==
    res # <<>> =>
        /\ Len(res[1]) = Len(arg[1])
        /\ \A i \in 1..Len(arg[1]) :
              /\ res[1][i].type = arg[1][i].type
              /\ res[1][i].properties = arg[1][i].properties
              /\ res[1][i].geometry.t = arg[1][i].geometry.t
              /\ Len(res[1][i].geometry.v) = Len(arg[1][i].geometry.v)
              /\ \A k \in 2..Len(arg[1][i].geometry.v) :
                    res[1][i].geometry.v[k] = arg[1][i].geometry.v[k]
              /\ ~crossTest(RingIn(i)) => RingOut(i) = RingIn(i)
              /\ Len(RingOut(i)) = Len(RingIn(i))
              /\ \A j \in 1..Len(RingIn(i)) : RingOut(i)[j][2] = RingIn(i)[j][2]

C9_Witness ==
    /\ res # <<>>
    /\ Len(arg[1]) = 2
    /\ crossTest(RingIn(1)) /\ RingOut(1) # RingIn(1)
    /\ Len(arg[1][1].geometry.v) = 2 /\ crossTest(arg[1][1].geometry.v[2])
    /\ ~crossTest(RingIn(2))

(* C10: the searches of a stream are issued at the offsets 0, queryLimit,  *)
(* 2*queryLimit, ...; the documents handed to the 'data' handler are the   *)
(* documents of the index, each once and in order; no search follows a     *)
(* page shorter than queryLimit; and an index of 2300 documents read with  *)
(* the default page size takes the searches at 0, 1000 and 2000.           *)
IsPrefix(a, b) == Len(a) <= Len(b) /\ \A i \in 1..Len(a) : a[i] = b[i]

Live(g) == st[g] \in {"fetching", "flowing", "uploading"}

C10_Offsets ==
    \A g \in Groups :
        Live(g) =>
            /\ \A i \in 1..Len(fetches[g]) : fetches[g][i] = (i - 1) * queryLimit
            /\ IsPrefix(received[g] \o buf[g], index[g])
            /\ st[g] = "fetching" => (more[g] /\ buf[g] = <<>>)
            /\ more[g] =>
                  /\ Len(index[g]) = Len(received[g]) + Len(buf[g])
                  /\ Len(index[g]) =
                        (IF st[g] = "fetching" THEN Len(fetches[g]) - 1
                         ELSE Len(fetches[g])) * queryLimit
            /\ ~more[g] =>
                  /\ indexEnd[g]
                  /\ Len(index[g]) < Len(fetches[g]) * queryLimit
                  /\ Len(index[g]) >= (Len(fetches[g]) - 1) * queryLimit

C10_AtEnd ==
    \A g \in Groups :
        EndStep(g) =>
            /\ received[g] = index[g]
            /\ indexEnd[g]
            /\ Len(fetches[g]) = (Len(index[g]) \div queryLimit) + 1
            /\ (pQueryLimit = 0 /\ Len(index[g]) = 2 * DefaultQueryLimit + 300) =>
                  /\ fetches[g] = <<0, DefaultQueryLimit, 2 * DefaultQueryLimit>>
                  /\ Len(received[g]) = 2 * DefaultQueryLimit + 300

C10_NoFetchAfterShortPage ==
    \A g \in Groups : (Live(g) /\ ~more[g]) => fetches'[g] \in {fetches[g], <<>>}

C10_Paging == []C10_Offsets /\ [][C10_AtEnd /\ C10_NoFetchAfterShortPage]_vars

C10_Witness ==
    /\ pQueryLimit = 2
    /\ st[1] = "uploading"
    /\ fetches[1] = <<0, 2>>
    /\ Len(received[1]) = 3
    /\ received[1] = index[1]
    /\ received[1][1] # received[1][2]

-----------------------------------------------------------------------------
(* Runs of a landsat8 and a sentinel2 grouping, under a task limit of 1 or *)
(* 2, each matching up to MaxShared documents, with staging names that may *)
(* or may not differ.                                                      *)

MaxShared == 2
StageNames == {"scenes", "tiles"}

InitShare ==
    /\ types \in {<<[type |-> "landsat8", baseName |-> a],
                      [type |-> "sentinel2", baseName |-> b]>> :
                        a \in StageNames, b \in StageNames}
    /\ pTaskLimit \in 1..2
    /\ pQueryLimit = MaxShared
    /\ backend = [docs |-> "share", sizes |-> 0..MaxShared]
    /\ InitPipes
    /\ arg = <<>>
    /\ res = <<>>

SpecShare == InitShare /\ [][Next]_vars

(* C11: the collection of a grouping holds one feature for each document   *)
(* of its own stream that the 'data' handler did not skip, in the order of *)
(* arrival, and nothing else; the documents handled are those of its own   *)
(* index.                                                                  *)
C11_OwnRecordsInOrder ==
    \A g \in Groups :
        /\ st[g] \in {"fetching", "flowing"} =>
              /\ geojson[g] = FeaturesOf(types[g].type, received[g])
              /\ IsPrefix(received[g] \o buf[g], index[g])
        /\ st[g] = "uploading" =>
              /\ received[g] = index[g]
              /\ \E tie \in Ties :
                    geojson[g] = worldWrap(FeaturesOf(types[g].type, index[g]), tie)
              /\ Len(geojson[g]) =
                    Cardinality({i \in 1..Len(index[g]) :
                                    onData(types[g].type, index[g][i]).kind = "feature"})
        /\ st[g] \in {"idle", "done", "exited"} => geojson[g] = <<>>

C11_Witness ==
    /\ Len(types) = 2
    /\ types[1].type # types[2].type
    /\ st[1] = "uploading" /\ st[2] = "flowing"
    /\ Len(received[1]) = 2 /\ Len(geojson[1]) = 2
    /\ geojson[1][1] # geojson[1][2]
    /\ Len(received[2]) = 2 /\ Len(geojson[2]) = 1
    /\ onData(types[2].type, received[2][1]).kind = "skip"

(* C12: while a grouping uploads, the file at its staging name is the file *)
(* it wrote.                                                               *)
C12_StagedFileKept ==
    \A g \in Groups :
        st[g] = "uploading" =>
            files[filename(g)] = <<[by |-> g, doc |-> geojson[g]]>>

-----------------------------------------------------------------------------
(* zp applied to a value and a width, and again to its own result.         *)

MaxZpLen == 3
MaxWidth == 4
MaxZpNum == 12

ZpChars == {"a", "0"}
ZpValues ==
    {Str(q) : q \in UNION {[1..k -> ZpChars] : k \in 0..MaxZpLen}}
    \cup {Num(k) : k \in (-1)..MaxZpNum} \cup {Undef, Null}

InitZp ==
    /\ NoRun
    /\ arg \in {<<[n |-> v, c |-> w]>> : v \in ZpValues, w \in 0..MaxWidth}
    /\ res = <<>>

ZpStep ==
    /\ res = <<>>
    /\ res' = <<zp(arg[1].n, arg[1].c)>>
    /\ UNCHANGED <<config, pipeVars, started, st, files, uploads, doneCalls, exitCode,
                   runResult, arg>>

ZpAgain ==
    /\ Len(res) = 1
    /\ res' = Append(res, zp(Str(res[1]), arg[1].c))
    /\ UNCHANGED <<config, pipeVars, started, st, files, uploads, doneCalls, exitCode,
                   runResult, arg>>

NextZp == ZpStep \/ ZpAgain

SpecZp == InitZp /\ [][NextZp]_vars

Zeros(k) == [i \in 1..k |-> "0"]

(* C13: zp(n, c) is String(n) with max(0, c - length) characters "0" in    *)
(* front: it is at least c long, ends with String(n), is String(n) itself  *)
(* when that is at least c long, and zp('a',3) = '00a', zp('aa',3) = '0aa',*)
(* zp('aaa',3) = 'aaa', zp('a',1) = 'a'.                                   *)
C13_ZeroPadded ==
    res # <<>> =>
        LET s == String(arg[1].n)
            c == arg[1].c
            r == res[1]
        IN  /\ r = Zeros(Max(0, c - Len(s))) \o s
            /\ Len(r) >= c
            /\ SubSeq(r, Len(r) - Len(s) + 1, Len(r)) = s
            /\ Len(s) >= c => r = s
            /\ (arg[1].n = Str(<<"a">>) /\ c = 3) => r = <<"0", "0", "a">>
            /\ (arg[1].n = Str(<<"a", "a">>) /\ c = 3) => r = <<"0", "a", "a">>
            /\ (arg[1].n = Str(<<"a", "a", "a">>) /\ c = 3) => r = <<"a", "a", "a">>
            /\ (arg[1].n = Str(<<"a">>) /\ c = 1) => r = <<"a">>

C13_Witness ==
    /\ res # <<>>
    /\ arg[1].n = Num(7)
    /\ arg[1].c = 3
    /\ res[1] = <<"0", "0", "7">>

(* C14: zp applied with the same width to its own result returns that      *)
(* result.                                                                 *)
C14_Idempotent == Len(res) = 2 => res[2] = res[1]

C14_Witness ==
    /\ Len(res) = 2
    /\ arg[1].n = Str(<<"a">>)
    /\ arg[1].c = 3
    /\ res[1] = <<"0", "0", "a">>
    /\ res[2] = res[1]

-----------------------------------------------------------------------------
(* C15: when the write of the file throws, upload is not called for the    *)
(* grouping, done(err) is called and the run is reported Failed.           *)
C15_WriteFailureReported ==
    \A g \in Groups :
        Occurs(log[g], "writeThrows") = 1 =>
            /\ uploads[g] = 0
            /\ doneCalls[g] = <<"err">>
            /\ runResult = "Failed"

(* C17: done of a grouping is called at most once; it is called by the end *)
(* of a stream with an empty collection and by the 'error' or 'finished'   *)
(* event of the upload, never by a 'progress' event, and never again once  *)
(* called.                                                                 *)
C17_DoneInv ==
    \A g \in Groups :
        /\ Len(doneCalls[g]) <= 1
        /\ st[g] = "done" <=> Len(doneCalls[g]) = 1

C17_DoneStep ==
    \A g \in Groups :
        /\ (EndStep(g) /\ geojson[g] = <<>>) => doneCalls'[g] = <<"null">>
        /\ (EndStep(g) /\ geojson[g] # <<>>) => doneCalls'[g] = <<>>
        /\ (st[g] = "uploading" /\ st'[g] = "uploading") => doneCalls'[g] = doneCalls[g]
        /\ (st[g] = "uploading" /\ st'[g] # "uploading") =>
              (doneCalls[g] = <<>> /\ doneCalls'[g] \in {<<"null">>, <<"err">>})
        /\ doneCalls[g] # <<>> => doneCalls'[g] = doneCalls[g]

C17_DoneOnce == []C17_DoneInv /\ [][C17_DoneStep]_vars

C17_Witness ==
    /\ Len(types) = 3
    /\ doneCalls[1] = <<"null">> /\ uploads[1] = 0
    /\ doneCalls[2] = <<"null">> /\ uploads[2] = 1
    /\ doneCalls[3] = <<"err">> /\ uploads[3] = 1

(* C19: when the task of a grouping of an unknown type starts, the process *)
(* exits with status 1 in that step: the grouping issues no search, writes *)
(* no file and calls no upload, no task starts after it, and no done is    *)
(* called afterwards.                                                      *)
C19_Inv ==
    \A g \in Groups :
        (types[g].type \notin KnownTypes /\ g <= started) =>
            /\ exitCode = <<1>>
            /\ st[g] = "exited"
            /\ started = g
            /\ fetches[g] = <<>>
            /\ uploads[g] = 0
            /\ doneCalls[g] = <<>>
            /\ \A n \in DOMAIN files : files[n] = <<>> \/ files[n][1].by # g

C19_Step ==
    (\E g \in Groups : st[g] = "exited") => (doneCalls' = doneCalls /\ st' = st)

C19_UnknownTypeExits == []C19_Inv /\ [][C19_Step]_vars

C19_Witness ==
    /\ Len(types) = 3
    /\ pTaskLimit = 2
    /\ doneCalls[1] = <<"null">>
    /\ st[2] = "uploading" /\ doneCalls[2] = <<>>
    /\ st[3] = "exited"
    /\ exitCode = <<1>>

-----------------------------------------------------------------------------
(* The runs of Spec in which every callback that is ready is run: the      *)
(* first call, every search calls back with a page or an error, the stream *)
(* hands over the hits it holds and ends, and every upload emits its       *)
(* 'error' or its 'finished'.                                              *)
Fairness ==
    /\ WF_vars(doTheThing)
    /\ \A g \in 1..MaxGroups :
          /\ WF_vars(g \in Groups /\ (PageArrives(g) \/ QueryError(g)))
          /\ WF_vars(g \in Groups /\ OnData(g))
          /\ WF_vars(g \in Groups /\ OnEnd(g))
          /\ WF_vars(g \in Groups /\ (UploadError(g) \/ UploadFinished(g)))

SpecFair == Init /\ [][Next]_vars /\ Fairness

(* C18: every fair run reaches a process exit, with status 0 or 1.         *)
C18_EventuallyExits == <>(exitCode \in {<<0>>, <<1>>})

-----------------------------------------------------------------------------
(* C16: the number the 'data' handler counts and tests against 1000 is the *)
(* number of documents the stream has handed to it, the skipped ones       *)
(* included, and a notice is logged exactly when that number reaches a     *)
(* multiple of 1000.                                                       *)
C16_NoticePerThousandConsumed ==
    \A g \in Groups :
        st[g] \in {"fetching", "flowing"} =>
            /\ count[g] = Len(received[g])
            /\ notices[g] = [k \in 1..(Len(received[g]) \div 1000) |-> 1000 * k]

=============================================================================
